---- MODULE Spec2Model ----
(***************************************************************************)
(* A model of src/ingest.py: the Neo4j CRM ingest script.                  *)
(*                                                                         *)
(* Text is modelled as a sequence of one-character strings, so that        *)
(* lower(), strip(), replace(), substring tests and strptime act on the    *)
(* characters as the Python code does.                                     *)
(***************************************************************************)
EXTENDS Integers, Sequences, FiniteSets, TLC

VARIABLES
    pc,          \* position of main() / run_ingest()
    driver,      \* the driver object of connect_to_neo4j: "none", "open", "closed"
    ingest,      \* main()'s local `ingest` is bound to an object (not None)
    rc,          \* main()'s return value, Unset until it is decided
    exc,         \* the exception that surfaced: [phase, kind], or NoExc
    call,        \* the database statement the last step executed, or NoCall
    constraints, \* constraint statements of the configuration not yet executed
    indexes,     \* [kind, len, n]: the configured index list, the statements left
    cases,       \* data/cases.csv: [exists, rows]
    loaded,      \* node types whose load completed
    db_owners,   \* ownerIds the CaseOwner write put in the database
    todo,        \* configured types the current loading loop has yet to visit
    cur,         \* the type being loaded: [type, records, off], or Idle
    issued,      \* chunks written (attempted) for the current type, in order
    applied,     \* chunks of the current type whose write succeeded
    rel_failed,  \* some relationship chunk write failed in this run
    vq,          \* verification queries executed
    vfail,       \* some verification query failed
    cv           \* the Field Value Converter harness: [st, field, value, out]

vars == <<pc, driver, ingest, rc, exc, call, constraints, indexes, cases, loaded,
          db_owners, todo, cur, issued, applied, rel_failed, vq, vfail, cv>>

(***************************************************************************)
(* Bounds of the model.                                                    *)
(***************************************************************************)
\* batch_size is 1000 in the source (lines 247 and 278); the model scales it
\* down so that loads of several chunks are reachable.
batch_size == 2
MaxStmts == 1      \* constraint / index statements in the configuration
MaxRecs == 3       \* records a generic CSV source file yields
MaxRows == 3       \* data rows of cases.csv
MaxLen == 2        \* length of the generated raw texts given to the converter

(***************************************************************************)
(* Text helpers.                                                           *)
(***************************************************************************)
Uppers == <<"A","B","C","D","E","F","G","H","I","J","K","L","M",
            "N","O","P","Q","R","S","T","U","V","W","X","Y","Z">>
Lowers == <<"a","b","c","d","e","f","g","h","i","j","k","l","m",
            "n","o","p","q","r","s","t","u","v","w","x","y","z">>
Digits == <<"0","1","2","3","4","5","6","7","8","9">>

LowerChar(c) ==
    IF \E k \in 1..26 : Uppers[k] = c
    THEN Lowers[CHOOSE k \in 1..26 : Uppers[k] = c]
    ELSE c

\* str.lower()
Lower(s) == [k \in 1..Len(s) |-> LowerChar(s[k])]

\* `pat in s`
Contains(s, pat) ==
    \E k \in 0..(Len(s) - Len(pat)) :
        \A j \in 1..Len(pat) : s[k + j] = pat[j]

IsSpace(c) == c = " "

\* str.strip()
Strip(s) ==
    IF \A k \in 1..Len(s) : IsSpace(s[k]) THEN <<>>
    ELSE LET first == CHOOSE k \in 1..Len(s) :
                          /\ ~IsSpace(s[k])
                          /\ \A j \in 1..(k - 1) : IsSpace(s[j])
             last  == CHOOSE k \in 1..Len(s) :
                          /\ ~IsSpace(s[k])
                          /\ \A j \in (k + 1)..Len(s) : IsSpace(s[j])
         IN SubSeq(s, first, last)

RECURSIVE Replace(_, _, _)
\* str.replace(old, new) for a one-character old; new is a text
Replace(s, old, new) ==
    IF s = <<>> THEN <<>>
    ELSE (IF Head(s) = old THEN new ELSE <<Head(s)>>) \o Replace(Tail(s), old, new)

IsDigit(c) == \E k \in 1..10 : Digits[k] = c
DigitVal(c) == (CHOOSE k \in 1..10 : Digits[k] = c) - 1
AllDigits(s) == \A k \in 1..Len(s) : IsDigit(s[k])

RECURSIVE DecVal(_)
\* the value of a sequence of decimal digits (0 for the empty one)
DecVal(s) ==
    IF s = <<>> THEN 0
    ELSE 10 * DecVal(SubSeq(s, 1, Len(s) - 1)) + DigitVal(s[Len(s)])

Pad2(n) == <<Digits[(n \div 10) + 1], Digits[(n % 10) + 1]>>
Pad4(n) == <<Digits[(n \div 1000) + 1], Digits[((n \div 100) % 10) + 1],
             Digits[((n \div 10) % 10) + 1], Digits[(n % 10) + 1]>>

(***************************************************************************)
(* convert_field_value and what it calls.                                  *)
(***************************************************************************)
Null == [kind |-> "null"]
IntVal(n) == [kind |-> "int", val |-> n]
StrVal(s) == [kind |-> "str", val |-> s]
\* Python's None where a text is expected: a text of one non-character
None == <<"None">>

NumericKeywords == { <<"r","e","v","e","n","u","e">>,
                     <<"a","m","o","u","n","t">>,
                     <<"n","u","m","b","e","r">>,
                     <<"p","r","o","b","a","b","i","l","i","t","y">> }
DateKeywords == { <<"d","a","t","e">>,
                  <<"c","r","e","a","t","e","d">>,
                  <<"c","l","o","s","e","d">> }

IsNumericField(field_name) ==
    \E kw \in NumericKeywords : Contains(Lower(field_name), kw)
IsDateField(field_name) ==
    \E kw \in DateKeywords : Contains(Lower(field_name), kw)

\* float(x) accepts, over the model's characters: surrounding whitespace, an
\* optional "-", then digits with an optional "." (at least one digit).
FloatBody(s) == IF s # <<>> /\ Head(s) = "-" THEN Tail(s) ELSE s
DotAt(b) == IF \E k \in 1..Len(b) : b[k] = "."
            THEN CHOOSE k \in 1..Len(b) : b[k] = "." /\ \A j \in 1..(k - 1) : b[j] # "."
            ELSE Len(b) + 1
IsFloat(s) ==
    LET b == FloatBody(Strip(s))
        d == DotAt(b)
        ip == SubSeq(b, 1, d - 1)
        fp == SubSeq(b, d + 1, Len(b))
    IN /\ AllDigits(ip) /\ AllDigits(fp)
       /\ Len(ip) + Len(fp) > 0
\* int(float(x)): truncation toward zero
TruncFloat(s) ==
    LET t == Strip(s)
        b == FloatBody(t)
        ip == SubSeq(b, 1, DotAt(b) - 1)
    IN IF t # b THEN 0 - DecVal(ip) ELSE DecVal(ip)

\* lines 167-171
ConvertNumeric(value) ==
    IF AllDigits(value) THEN IntVal(DecVal(value))
    ELSE IF IsFloat(value) THEN IntVal(TruncFloat(value))
    ELSE Null

\* the text between separators: Split(<<"1","/","2">>, "/") = << <<"1">>, <<"2">> >>
RECURSIVE Split(_, _)
Split(s, sep) ==
    IF \A k \in 1..Len(s) : s[k] # sep THEN <<s>>
    ELSE LET p == CHOOSE k \in 1..Len(s) : s[k] = sep /\ \A j \in 1..(k - 1) : s[j] # sep
         IN <<SubSeq(s, 1, p - 1)>> \o Split(SubSeq(s, p + 1, Len(s)), sep)

\* strptime's directives: %Y is \d\d\d\d, %m is 1[0-2]|0[1-9]|[1-9],
\* %d is 3[01]|[12]\d|0[1-9]|[1-9]| [1-9]
MatchesY(t) == Len(t) = 4 /\ AllDigits(t)
MatchesM(t) == /\ Len(t) \in {1, 2} /\ AllDigits(t)
               /\ DecVal(t) \in 1..12
MatchesD(t) == \/ /\ Len(t) \in {1, 2} /\ AllDigits(t)
                  /\ DecVal(t) \in 1..31
               \/ /\ Len(t) = 2 /\ t[1] = " " /\ IsDigit(t[2])
                  /\ DigitVal(t[2]) \in 1..9
DayVal(t) == IF t[1] = " " THEN DigitVal(t[2]) ELSE DecVal(t)

IsLeap(y) == (y % 4 = 0 /\ y % 100 # 0) \/ y % 400 = 0
DaysInMonth(y, m) ==
    IF m = 2 THEN (IF IsLeap(y) THEN 29 ELSE 28)
    ELSE IF m \in {4, 6, 9, 11} THEN 30 ELSE 31

\* datetime(y, m, d) raises ValueError outside these ranges
ValidDate(y, m, d) == y >= 1 /\ m \in 1..12 /\ d \in 1..DaysInMonth(y, m)

DateFormats == <<"%Y-%m-%d", "%m/%d/%Y", "%d/%m/%Y">>

\* datetime.strptime(value, fmt): [ok, y, m, d]; ok = FALSE is ValueError
Strptime(value, fmt) ==
    LET sep == IF fmt = "%Y-%m-%d" THEN "-" ELSE "/"
        parts == Split(value, sep)
        bad == [ok |-> FALSE, y |-> 0, m |-> 0, d |-> 0]
    IN IF Len(parts) # 3 THEN bad
       ELSE LET ty == IF fmt = "%Y-%m-%d" THEN parts[1] ELSE parts[3]
                tm == IF fmt = "%d/%m/%Y" THEN parts[2]
                      ELSE IF fmt = "%m/%d/%Y" THEN parts[1] ELSE parts[2]
                td == IF fmt = "%d/%m/%Y" THEN parts[1]
                      ELSE IF fmt = "%m/%d/%Y" THEN parts[2] ELSE parts[3]
            IN IF MatchesY(ty) /\ MatchesM(tm) /\ MatchesD(td)
                  /\ ValidDate(DecVal(ty), DecVal(tm), DayVal(td))
               THEN [ok |-> TRUE, y |-> DecVal(ty), m |-> DecVal(tm), d |-> DayVal(td)]
               ELSE bad

\* strftime('%Y-%m-%d')
Strftime(dt) == Pad4(dt.y) \o <<"-">> \o Pad2(dt.m) \o <<"-">> \o Pad2(dt.d)

\* a mutant of ConvertDate: a text no format matches becomes null
ConvertDateNullOnMismatch(value) ==
    IF Strip(value) # <<>> /\ \E k \in 1..3 : Strptime(value, DateFormats[k]).ok
    THEN LET k == CHOOSE k \in 1..3 :
                      /\ Strptime(value, DateFormats[k]).ok
                      /\ \A j \in 1..(k - 1) : ~Strptime(value, DateFormats[j]).ok
         IN StrVal(Strftime(Strptime(value, DateFormats[k])))
    ELSE Null

\* lines 175-186: the first format that parses wins; none: the text itself.
\* strptime and strftime on a str raise nothing but the ValueError of line 181,
\* so the bare except of line 184 is never entered.
ConvertDate(value) ==
    IF value # <<>> /\ Strip(value) # <<>>
    THEN IF \E k \in 1..3 : Strptime(value, DateFormats[k]).ok
         THEN LET k == CHOOSE k \in 1..3 :
                           /\ Strptime(value, DateFormats[k]).ok
                           /\ \A j \in 1..(k - 1) : ~Strptime(value, DateFormats[j]).ok
              IN StrVal(Strftime(Strptime(value, DateFormats[k])))
         ELSE StrVal(value)
    ELSE Null

\* lines 161-188
convert_field_value(field_name, value) ==
    IF value = None \/ value = <<>> THEN Null
    ELSE IF IsNumericField(field_name) THEN ConvertNumeric(value)
    ELSE IF IsDateField(field_name) THEN ConvertDate(value)
    ELSE StrVal(value)

(***************************************************************************)
(* The converter harness: the inputs convert_field_value is applied to.    *)
(***************************************************************************)
FieldNames == { <<"c","r","e","a","t","e","d","_","d","a","t","e">>,
                <<"C","l","o","s","e","d","A","t">>,
                <<"n","a","m","e">>,
                <<"a","m","o","u","n","t">>,
                <<"c","l","o","s","e","d","_","A","m","o","u","n","t">> }

GenChars == {"1", "-", "/", " ", "x"}

RECURSIVE TextsUpTo(_)
TextsUpTo(n) ==
    IF n = 0 THEN {<<>>}
    ELSE LET shorter == TextsUpTo(n - 1)
         IN shorter \cup {Append(t, c) : t \in {u \in shorter : Len(u) = n - 1}, c \in GenChars}

CuratedTexts == {
    <<"2","0","2","4","-","0","3","-","0","5">>,
    <<"0","3","/","0","5","/","2","0","2","4">>,
    <<"2","5","/","1","2","/","2","0","2","4">>,
    <<"2","0","2","3","-","0","2","-","3","0">>,
    <<"2","0","2","4","-","0","2","-","2","9">>,
    <<"1","3","/","1","3","/","2","0","2","4">>,
    <<"2","0","2","4","-","3","-"," ","5">>,
    <<"2","0","2","4","-","0","3","-","0","5"," ">>,
    <<"0","0","0","0","-","0","1","-","0","1">>,
    <<"1","0","0",".","7">>,
    <<"-","1",".","7">>,
    <<" ","4","2"," ">>,
    <<" "," "," ">>,
    <<"n","/","a">> }

RawValues == {None} \cup TextsUpTo(MaxLen) \cup CuratedTexts

ConvIdle == [st |-> "idle", field |-> <<>>, value |-> <<>>, out |-> Null]

\* one call of convert_field_value(field_name, value)
Convert ==
    /\ cv.st = "in"
    /\ cv' = [cv EXCEPT !.st = "out", !.out = convert_field_value(cv.field, cv.value)]
    /\ UNCHANGED <<pc, driver, ingest, rc, exc, call, constraints, indexes, cases,
                   loaded, db_owners, todo, cur, issued, applied, rel_failed, vq, vfail>>

(***************************************************************************)
(* The Derived-Entity Builder and the ASSIGNED_TO resolver.                *)
(***************************************************************************)
\* lines 190-194.  A text of the model is never Python's None here: both
\* callers pass a stripped, non-empty name.
generate_case_owner_id(name) ==
    IF name = <<>> \/ Strip(name) = <<>> THEN None
    ELSE Replace(Replace(Lower(name), " ", <<"_">>), ".", <<>>)

\* lines 202-209: the set of stripped, non-empty Case_Owner values
case_owner_names(rows) ==
    {Strip(rows[k].Case_Owner) : k \in 1..Len(rows)} \ {<<>>}

\* lines 212-217: one record per name of the set.  A Python set of strings
\* iterates in an order that varies from run to run: every order is possible.
case_owner_records(rows) ==
    LET names == case_owner_names(rows)
        n == Cardinality(names)
    IN { [k \in 1..n |-> [ownerId |-> generate_case_owner_id(order[k]),
                          name |-> order[k]]] :
         order \in {o \in [1..n -> names] : \A a, b \in 1..n : a # b => o[a] # o[b]} }

\* a mutant of load_assigned_to_relationships: the owner name is not stripped
load_assigned_to_unstripped(rows) ==
    LET keep == {k \in 1..Len(rows) :
                     Strip(rows[k].Case_ID) # <<>> /\ Strip(rows[k].Case_Owner) # <<>>}
        F[k \in 0..Len(rows)] ==
            IF k = 0 THEN <<>>
            ELSE IF k \in keep
                 THEN Append(F[k - 1],
                             [sourceId |-> Strip(rows[k].Case_ID),
                              targetId |-> generate_case_owner_id(rows[k].Case_Owner)])
                 ELSE F[k - 1]
    IN F[Len(rows)]

\* lines 289-306
load_assigned_to_relationships(rows) ==
    LET keep == {k \in 1..Len(rows) :
                     Strip(rows[k].Case_ID) # <<>> /\ Strip(rows[k].Case_Owner) # <<>>}
        F[k \in 0..Len(rows)] ==
            IF k = 0 THEN <<>>
            ELSE IF k \in keep
                 THEN Append(F[k - 1],
                             [sourceId |-> Strip(rows[k].Case_ID),
                              targetId |-> generate_case_owner_id(Strip(rows[k].Case_Owner))])
                 ELSE F[k - 1]
    IN F[Len(rows)]

(***************************************************************************)
(* The environment of a run: cases.csv, the configuration, the database.   *)
(***************************************************************************)
\* data/cases.csv: absent, or a header and a sequence of data rows
MissingFile == [exists |-> FALSE, rows |-> <<>>]

CaseRows == { [Case_ID |-> <<"1">>, Case_Owner |-> <<"J"," ","S">>],
              [Case_ID |-> <<"2">>, Case_Owner |-> <<"j"," ","s"," ">>],
              [Case_ID |-> <<>>,    Case_Owner |-> <<"J",".","S">>],
              [Case_ID |-> <<"4">>, Case_Owner |-> <<" ">>] }

CasesFiles == {MissingFile} \cup
              {[exists |-> TRUE, rows |-> r] : r \in UNION {[1..n -> CaseRows] : n \in 0..MaxRows}}

\* a generic CSV source file: absent, or n data rows (record k is row k converted)
SourceFiles == {[exists |-> FALSE, n |-> 0]} \cup {[exists |-> TRUE, n |-> n] : n \in 0..MaxRecs}

\* the `indexes` entry of initializing_queries: no key, a null value, or a list
IndexConfigs == {[kind |-> "absent", len |-> 0, n |-> 0],
                 [kind |-> "null", len |-> 0, n |-> 0]} \cup
                {[kind |-> "list", len |-> n, n |-> n] : n \in 0..MaxStmts}

\* the node and relationship types of loading_queries, in configuration order
NodeTypes == <<"Account", "CaseOwner", "Case">>
RelTypes == <<"CONVERTED_TO_OPPORTUNITY", "ASSIGNED_TO", "HAS_CASE">>
AllNodeTypes == {NodeTypes[k] : k \in 1..Len(NodeTypes)}

\* error texts the database answers a statement with
ErrExistsLower == <<"c","o","n","s","t","r","a","i","n","t"," ",
                    "a","l","r","e","a","d","y"," ","e","x","i","s","t","s">>
ErrExistsMixed == <<"A","l","r","e","a","d","y"," ","E","x","i","s","t","s",":"," ","x">>
ErrNearMiss == <<"a","l","r","e","a","d","y"," ","e","x","i","s","t">>
ErrOther == <<"s","y","n","t","a","x"," ","e","r","r","o","r">>
ErrTexts == {ErrExistsLower, ErrExistsMixed, ErrNearMiss, ErrOther}

Success == [ok |-> TRUE, err |-> <<>>]
Responses == {Success} \cup {[ok |-> FALSE, err |-> t] : t \in ErrTexts}
\* a count query's outcome: verify_data does not look at the error text
QueryResponses == {Success, [ok |-> FALSE, err |-> ErrOther]}

\* main() has not returned yet
Unset == 0 - 1

NoExc == [phase |-> "none", kind |-> "none"]
NoCall == [op |-> "none", type |-> "none", recs |-> <<>>, resp |-> Success]
Idle == [type |-> "none", records |-> <<>>, off |-> 0]

\* the verification_queries list of verify_data
NumVerifyQueries == 11

\* a mutant of AlreadyExists: the test is case-sensitive
AlreadyExistsCaseSensitive(err) ==
    Contains(err, <<"a","l","r","e","a","d","y"," ","e","x","i","s","t","s">>)

\* lines 108 and 128: "already exists" in str(e).lower()
AlreadyExists(err) ==
    Contains(Lower(err), <<"a","l","r","e","a","d","y"," ","e","x","i","s","t","s">>)

\* the `.get('indexes', []) or []` of line 117: the statements to execute
IndexList(ix) == IF ix.kind = "list" THEN ix.n ELSE 0

Min(a, b) == IF a < b THEN a ELSE b

\* records[i:i + batch_size], i counted from 0
Batch(records, i) == SubSeq(records, i + 1, Min(i + batch_size, Len(records)))

Raise(phase, kind) ==
    /\ exc' = [phase |-> phase, kind |-> kind]
    /\ pc' = "except"

(***************************************************************************)
(* main(): construction, run_ingest, verify_data, the finally clause.      *)
(***************************************************************************)
Init ==
    /\ pc = "start"
    /\ driver = "none"
    /\ ingest = FALSE
    /\ rc = Unset
    /\ exc = NoExc
    /\ call = NoCall
    /\ constraints = 0
    /\ indexes = [kind |-> "absent", len |-> 0, n |-> 0]
    /\ cases \in CasesFiles
    /\ loaded = {}
    /\ db_owners = {}
    /\ todo = <<>>
    /\ cur = Idle
    /\ issued = <<>>
    /\ applied = <<>>
    /\ rel_failed = FALSE
    /\ vq = 0
    /\ vfail = FALSE
    /\ cv = ConvIdle

\* lines 54-63, 65-72, 77-80: Neo4jIngest() raises before a driver object exists
\* (missing credentials, missing configuration file, GraphDatabase.driver raising)
ConstructFailsEarly ==
    /\ pc = "start"
    /\ \E kind \in {"ValueError", "FileNotFoundError", "ConnectionError"} :
           Raise("connect", kind)
    /\ call' = NoCall
    /\ UNCHANGED <<driver, ingest, rc, constraints, indexes, cases, loaded, db_owners,
                   todo, cur, issued, applied, rel_failed, vq, vfail, cv>>

\* lines 77-85: the driver object is created and assigned to self.driver, then
\* verify_connectivity raises; Neo4jIngest() raises, main's `ingest` stays None
ConstructFailsConnectivity ==
    /\ pc = "start"
    /\ driver' = "open"
    /\ Raise("connect", "ConnectionError")
    /\ call' = NoCall
    /\ UNCHANGED <<ingest, rc, constraints, indexes, cases, loaded, db_owners,
                   todo, cur, issued, applied, rel_failed, vq, vfail, cv>>

\* lines 34-40 and 363: Neo4jIngest() returns; the configuration is loaded
Construct ==
    /\ pc = "start"
    /\ driver' = "open"
    /\ ingest' = TRUE
    /\ \E nc \in 0..MaxStmts : constraints' = nc
    /\ \E ix \in IndexConfigs : indexes' = ix
    /\ pc' = "constraints"
    /\ call' = NoCall
    /\ UNCHANGED <<rc, exc, cases, loaded, db_owners, todo, cur, issued, applied,
                   rel_failed, vq, vfail, cv>>

\* lines 103-112: one iteration of create_constraints' loop
CreateConstraint ==
    /\ pc = "constraints"
    /\ constraints > 0
    /\ \E r \in Responses :
           /\ call' = [op |-> "constraint", type |-> "constraint", recs |-> <<>>, resp |-> r]
           /\ IF r.ok \/ AlreadyExists(r.err)
              THEN constraints' = constraints - 1 /\ UNCHANGED <<pc, exc>>
              ELSE Raise("constraints", "DatabaseError") /\ UNCHANGED constraints
    /\ UNCHANGED <<driver, ingest, rc, indexes, cases, loaded, db_owners, todo, cur,
                   issued, applied, rel_failed, vq, vfail, cv>>

\* line 103 with the list exhausted: create_constraints returns (line 314 to 317)
ConstraintsDone ==
    /\ pc = "constraints"
    /\ constraints = 0
    /\ pc' = "indexes"
    /\ call' = NoCall
    /\ UNCHANGED <<driver, ingest, rc, exc, constraints, indexes, cases, loaded,
                   db_owners, todo, cur, issued, applied, rel_failed, vq, vfail, cv>>

\* lines 123-132: one iteration of create_indexes' loop
CreateIndex ==
    /\ pc = "indexes"
    /\ IndexList(indexes) > 0
    /\ \E r \in Responses :
           /\ call' = [op |-> "index", type |-> "index", recs |-> <<>>, resp |-> r]
           /\ IF r.ok \/ AlreadyExists(r.err)
              THEN indexes' = [indexes EXCEPT !.n = @ - 1] /\ UNCHANGED <<pc, exc>>
              ELSE Raise("indexes", "DatabaseError") /\ UNCHANGED indexes
    /\ UNCHANGED <<driver, ingest, rc, constraints, cases, loaded, db_owners, todo, cur,
                   issued, applied, rel_failed, vq, vfail, cv>>

\* lines 119-121 (nothing to create) or line 123 with the list exhausted
IndexesDone ==
    /\ pc = "indexes"
    /\ IndexList(indexes) = 0
    /\ pc' = "case_owners"
    /\ call' = NoCall
    /\ UNCHANGED <<driver, ingest, rc, exc, constraints, indexes, cases, loaded,
                   db_owners, todo, cur, issued, applied, rel_failed, vq, vfail, cv>>

\* lines 196-222 and 229: load_case_owners, the first step of load_nodes
LoadCaseOwners ==
    /\ pc = "case_owners"
    /\ \/ /\ ~cases.exists
          /\ Raise("nodes", "FileNotFoundError")
          /\ call' = NoCall
          /\ UNCHANGED <<loaded, db_owners, todo>>
       \/ \* line 220: the CaseOwner entry or its query is not in the configuration
          /\ cases.exists
          /\ Raise("nodes", "KeyError")
          /\ call' = NoCall
          /\ UNCHANGED <<loaded, db_owners, todo>>
       \/ /\ cases.exists
          /\ \E records \in case_owner_records(cases.rows), r \in Responses :
                 /\ call' = [op |-> "node", type |-> "CaseOwner", recs |-> records, resp |-> r]
                 /\ IF r.ok
                    THEN /\ loaded' = loaded \cup {"CaseOwner"}
                         /\ db_owners' = {records[k].ownerId : k \in 1..Len(records)}
                         /\ todo' = NodeTypes
                         /\ pc' = "nodes"
                         /\ UNCHANGED exc
                    ELSE /\ Raise("nodes", "DatabaseError")
                         /\ UNCHANGED <<loaded, db_owners, todo>>
    /\ UNCHANGED <<driver, ingest, rc, constraints, indexes, cases, cur, issued, applied,
                   rel_failed, vq, vfail, cv>>

\* lines 234-244: the next node type of the configuration
NextNodeType ==
    /\ pc = "nodes" /\ cur = Idle /\ todo # <<>>
    /\ call' = NoCall
    /\ \/ /\ Head(todo) = "CaseOwner"
          /\ todo' = Tail(todo)
          /\ UNCHANGED <<pc, exc, cur>>
       \/ \* lines 240-242: a key of the entry is missing
          /\ Head(todo) # "CaseOwner"
          /\ Raise("nodes", "KeyError")
          /\ UNCHANGED <<todo, cur>>
       \/ /\ Head(todo) # "CaseOwner"
          /\ \E f \in SourceFiles :
                 IF f.exists
                 THEN /\ cur' = [type |-> Head(todo), records |-> [k \in 1..f.n |-> k], off |-> 0]
                      /\ todo' = Tail(todo)
                      /\ UNCHANGED <<pc, exc>>
                 ELSE /\ Raise("nodes", "FileNotFoundError")
                      /\ UNCHANGED <<todo, cur>>
    /\ UNCHANGED <<driver, ingest, rc, constraints, indexes, cases, loaded, db_owners,
                   issued, applied, rel_failed, vq, vfail, cv>>

\* a mutant of NodeChunk: a failed chunk is logged and skipped, as for relationships
NodeChunkTolerant ==
    /\ pc = "nodes" /\ cur # Idle /\ cur.off < Len(cur.records)
    /\ \E r \in Responses :
           /\ call' = [op |-> "node", type |-> cur.type,
                       recs |-> Batch(cur.records, cur.off), resp |-> r]
           /\ issued' = Append(issued, Batch(cur.records, cur.off))
           /\ applied' = IF r.ok THEN Append(applied, Batch(cur.records, cur.off)) ELSE applied
           /\ cur' = [cur EXCEPT !.off = @ + batch_size]
           /\ UNCHANGED <<pc, exc>>
    /\ UNCHANGED <<driver, ingest, rc, constraints, indexes, cases, loaded, db_owners,
                   todo, rel_failed, vq, vfail, cv>>

\* lines 248-250: one iteration of the batch loop of load_nodes
NodeChunk ==
    /\ pc = "nodes" /\ cur # Idle /\ cur.off < Len(cur.records)
    /\ \E r \in Responses :
           /\ call' = [op |-> "node", type |-> cur.type,
                       recs |-> Batch(cur.records, cur.off), resp |-> r]
           /\ issued' = Append(issued, Batch(cur.records, cur.off))
           /\ IF r.ok
              THEN /\ applied' = Append(applied, Batch(cur.records, cur.off))
                   /\ cur' = [cur EXCEPT !.off = @ + batch_size]
                   /\ UNCHANGED <<pc, exc>>
              ELSE /\ Raise("nodes", "DatabaseError")
                   /\ UNCHANGED <<applied, cur>>
    /\ UNCHANGED <<driver, ingest, rc, constraints, indexes, cases, loaded, db_owners,
                   todo, rel_failed, vq, vfail, cv>>

\* line 248 with the range exhausted, line 252
NodeTypeDone ==
    /\ pc = "nodes" /\ cur # Idle /\ cur.off >= Len(cur.records)
    /\ loaded' = loaded \cup {cur.type}
    /\ cur' = Idle
    /\ issued' = <<>>
    /\ applied' = <<>>
    /\ call' = NoCall
    /\ UNCHANGED <<pc, driver, ingest, rc, exc, constraints, indexes, cases, db_owners,
                   todo, rel_failed, vq, vfail, cv>>

\* line 234 with the configuration exhausted: load_nodes returns (line 320 to 323)
NodesDone ==
    /\ pc = "nodes" /\ cur = Idle /\ todo = <<>>
    /\ pc' = "rels"
    /\ todo' = RelTypes
    /\ call' = NoCall
    /\ UNCHANGED <<driver, ingest, rc, exc, constraints, indexes, cases, loaded,
                   db_owners, cur, issued, applied, rel_failed, vq, vfail, cv>>

\* the records of a relationship type: lines 272-275.  An absent file raises
\* FileNotFoundError (line 140, or open() at line 294): ok = FALSE
RelRecords(type, f) ==
    IF type = "ASSIGNED_TO"
    THEN [ok |-> cases.exists,
          records |-> IF cases.exists THEN load_assigned_to_relationships(cases.rows)
                      ELSE <<>>]
    ELSE [ok |-> f.exists, records |-> [k \in 1..f.n |-> k]]

\* lines 260-275: the next relationship type of the configuration
NextRelType ==
    /\ pc = "rels" /\ cur = Idle /\ todo # <<>>
    /\ call' = NoCall
    /\ \/ \* lines 261-263
          /\ Head(todo) = "CONVERTED_TO_OPPORTUNITY"
          /\ todo' = Tail(todo)
          /\ UNCHANGED <<pc, exc, cur>>
       \/ \* lines 267-269: a key of the entry is missing
          /\ Head(todo) # "CONVERTED_TO_OPPORTUNITY"
          /\ Raise("relationships", "KeyError")
          /\ UNCHANGED <<todo, cur>>
       \/ /\ Head(todo) # "CONVERTED_TO_OPPORTUNITY"
          /\ \E f \in SourceFiles :
                 LET got == RelRecords(Head(todo), f)
                 IN IF got.ok
                    THEN /\ cur' = [type |-> Head(todo), records |-> got.records, off |-> 0]
                         /\ todo' = Tail(todo)
                         /\ UNCHANGED <<pc, exc>>
                    ELSE /\ Raise("relationships", "FileNotFoundError")
                         /\ UNCHANGED <<todo, cur>>
    /\ UNCHANGED <<driver, ingest, rc, constraints, indexes, cases, loaded, db_owners,
                   issued, applied, rel_failed, vq, vfail, cv>>

\* a mutant of RelChunk: a failed chunk ends the loop of its type (break)
RelChunkBreakOnFailure ==
    /\ pc = "rels" /\ cur # Idle /\ cur.off < Len(cur.records)
    /\ \E r \in Responses :
           /\ call' = [op |-> "rel", type |-> cur.type,
                       recs |-> Batch(cur.records, cur.off), resp |-> r]
           /\ issued' = Append(issued, Batch(cur.records, cur.off))
           /\ applied' = IF r.ok THEN Append(applied, Batch(cur.records, cur.off)) ELSE applied
           /\ rel_failed' = (rel_failed \/ ~r.ok)
           /\ cur' = [cur EXCEPT !.off = IF r.ok THEN @ + batch_size ELSE Len(cur.records)]
    /\ UNCHANGED <<pc, driver, ingest, rc, exc, constraints, indexes, cases, loaded,
                   db_owners, todo, vq, vfail, cv>>

\* lines 279-285: one iteration of the batch loop of load_relationships
RelChunk ==
    /\ pc = "rels" /\ cur # Idle /\ cur.off < Len(cur.records)
    /\ \E r \in Responses :
           /\ call' = [op |-> "rel", type |-> cur.type,
                       recs |-> Batch(cur.records, cur.off), resp |-> r]
           /\ issued' = Append(issued, Batch(cur.records, cur.off))
           /\ applied' = IF r.ok THEN Append(applied, Batch(cur.records, cur.off)) ELSE applied
           /\ rel_failed' = (rel_failed \/ ~r.ok)
           /\ cur' = [cur EXCEPT !.off = @ + batch_size]
    /\ UNCHANGED <<pc, driver, ingest, rc, exc, constraints, indexes, cases, loaded,
                   db_owners, todo, vq, vfail, cv>>

\* line 279 with the range exhausted, line 287
RelTypeDone ==
    /\ pc = "rels" /\ cur # Idle /\ cur.off >= Len(cur.records)
    /\ cur' = Idle
    /\ issued' = <<>>
    /\ applied' = <<>>
    /\ call' = NoCall
    /\ UNCHANGED <<pc, driver, ingest, rc, exc, constraints, indexes, cases, loaded,
                   db_owners, todo, rel_failed, vq, vfail, cv>>

\* line 260 with the configuration exhausted: load_relationships and run_ingest
\* return (lines 325 and 364 to 365)
RelsDone ==
    /\ pc = "rels" /\ cur = Idle /\ todo = <<>>
    /\ pc' = "verify"
    /\ call' = NoCall
    /\ UNCHANGED <<driver, ingest, rc, exc, constraints, indexes, cases, loaded,
                   db_owners, todo, cur, issued, applied, rel_failed, vq, vfail, cv>>

\* a mutant of VerifyQuery: a failing query ends the verification pass
VerifyQueryStopOnFailure ==
    /\ pc = "verify" /\ vq < NumVerifyQueries
    /\ \E r \in QueryResponses :
           /\ call' = [op |-> "verify", type |-> "count", recs |-> <<>>, resp |-> r]
           /\ vfail' = (vfail \/ ~r.ok)
           /\ IF r.ok THEN vq' = vq + 1 /\ pc' = pc
                      ELSE vq' = vq + 1 /\ pc' = "finally"
    /\ UNCHANGED <<driver, ingest, rc, exc, constraints, indexes, cases, loaded,
                   db_owners, todo, cur, issued, applied, rel_failed, cv>>

\* lines 350-356: one verification query; its failure is logged
VerifyQuery ==
    /\ pc = "verify" /\ vq < NumVerifyQueries
    /\ \E r \in QueryResponses :
           /\ call' = [op |-> "verify", type |-> "count", recs |-> <<>>, resp |-> r]
           /\ vfail' = (vfail \/ ~r.ok)
           /\ vq' = vq + 1
    /\ UNCHANGED <<pc, driver, ingest, rc, exc, constraints, indexes, cases, loaded,
                   db_owners, todo, cur, issued, applied, rel_failed, cv>>

\* line 350 with the list exhausted: verify_data returns, the try block ends
VerifyDone ==
    /\ pc = "verify" /\ vq = NumVerifyQueries
    /\ pc' = "finally"
    /\ call' = NoCall
    /\ UNCHANGED <<driver, ingest, rc, exc, constraints, indexes, cases, loaded,
                   db_owners, todo, cur, issued, applied, rel_failed, vq, vfail, cv>>

\* a mutant of MainExcept: the exception is logged and no exit code is set
MainExceptSwallow ==
    /\ pc = "except"
    /\ pc' = "finally"
    /\ call' = NoCall
    /\ UNCHANGED <<rc, driver, ingest, exc, constraints, indexes, cases, loaded, db_owners,
                   todo, cur, issued, applied, rel_failed, vq, vfail, cv>>

\* lines 327-329 and 367-369: the exception reaches main, which returns 1
MainExcept ==
    /\ pc = "except"
    /\ rc' = 1
    /\ pc' = "finally"
    /\ call' = NoCall
    /\ UNCHANGED <<driver, ingest, exc, constraints, indexes, cases, loaded, db_owners,
                   todo, cur, issued, applied, rel_failed, vq, vfail, cv>>

\* lines 370-374: the finally clause, then main returns
MainFinally ==
    /\ pc = "finally"
    /\ driver' = IF ingest /\ driver = "open" THEN "closed" ELSE driver
    /\ rc' = IF rc = Unset THEN 0 ELSE rc
    /\ pc' = "done"
    /\ call' = NoCall
    /\ UNCHANGED <<ingest, exc, constraints, indexes, cases, loaded, db_owners,
                   todo, cur, issued, applied, rel_failed, vq, vfail, cv>>

Next ==
    \/ ConstructFailsEarly \/ ConstructFailsConnectivity \/ Construct
    \/ CreateConstraint \/ ConstraintsDone
    \/ CreateIndex \/ IndexesDone
    \/ LoadCaseOwners
    \/ NextNodeType \/ NodeChunk \/ NodeTypeDone \/ NodesDone
    \/ NextRelType \/ RelChunk \/ RelTypeDone \/ RelsDone
    \/ VerifyQuery \/ VerifyDone
    \/ MainExcept \/ MainFinally

Spec == Init /\ [][Next]_vars

(***************************************************************************)
(* The converter specification: convert_field_value on bounded inputs.     *)
(***************************************************************************)
InitConv ==
    /\ pc = "start"
    /\ driver = "none"
    /\ ingest = FALSE
    /\ rc = Unset
    /\ exc = NoExc
    /\ call = NoCall
    /\ constraints = 0
    /\ indexes = [kind |-> "absent", len |-> 0, n |-> 0]
    /\ cases = MissingFile
    /\ loaded = {}
    /\ db_owners = {}
    /\ todo = <<>>
    /\ cur = Idle
    /\ issued = <<>>
    /\ applied = <<>>
    /\ rel_failed = FALSE
    /\ vq = 0
    /\ vfail = FALSE
    /\ \E f \in FieldNames, v \in RawValues :
           cv = [st |-> "in", field |-> f, value |-> v, out |-> Null]

NextConv == Convert

SpecConv == InitConv /\ [][NextConv]_vars

(***************************************************************************)
(* The claims.                                                             *)
(***************************************************************************)
Range(q) == {q[k] : k \in 1..Len(q)}
RECURSIVE Concat(_)
\* the chunks of a sequence of chunks, joined in order
Concat(chunks) ==
    IF chunks = <<>> THEN <<>> ELSE Head(chunks) \o Concat(Tail(chunks))
Write(c) == c.op \in {"node", "rel"}
Statement(c) == c.op \in {"constraint", "index"}

\* C1: whenever a driver object was created, driver.close() has been called
\* by the time main() returns, on every exit path.
C1_DriverClosedOnEveryExit ==
    (pc = "done" /\ driver # "none") => driver = "closed"

\* C2 as stated: in every run that established a connection, all verification
\* queries are executed before the process exits, whether or not the earlier
\* phases completed.
C2_VerifyAlwaysAttempted ==
    (pc = "done" /\ ingest) => vq = NumVerifyQueries

\* C2 as amended: the verification queries are executed, every one of them and
\* whatever each returns, in exactly the runs in which the constraint, index,
\* node and relationship phases completed without an exception surfacing; in
\* a run one of them aborted, no verification query is executed.
C2_VerifyOnlyAfterIngestCompleted ==
    /\ (pc = "done" /\ exc = NoExc) => vq = NumVerifyQueries
    /\ exc # NoExc => vq = 0
    /\ call.op = "verify" => exc = NoExc /\ pc = "verify"

\* C2 witness: a run that ended after all verification queries ran, one of
\* which failed.
C2_Witness ==
    pc = "done" /\ exc = NoExc /\ vq = NumVerifyQueries /\ vfail /\ rc = 0

\* C3: phases run in the order connect, constraints, indexes, nodes, relationships,
\* none retried: no node write before every constraint and index statement
\* succeeded or was tolerated; the CaseOwner write precedes every other node
\* write; no relationship write unless every node type was loaded; a failed
\* node chunk aborts the run, and after an abort no statement is executed.
C3_PhasesStrictlyOrdered ==
    /\ call # NoCall => ingest /\ driver = "open"
    /\ call.op = "index" => constraints = 0
    /\ Write(call) => constraints = 0 /\ IndexList(indexes) = 0
    /\ (call.op = "node" /\ call.type # "CaseOwner") => "CaseOwner" \in loaded
    /\ call.op = "rel" => loaded = AllNodeTypes
    /\ (call.op = "node" /\ ~call.resp.ok) => pc = "except" /\ exc.phase = "nodes"
    /\ exc # NoExc => (call = NoCall \/ (pc = "except" /\ ~call.resp.ok))
    /\ cur # Idle =>
           Concat(issued) =
               SubSeq(cur.records, 1, Min(Len(issued) * batch_size, Len(cur.records)))

\* C3 witness: a relationship chunk is written after all earlier phases.
C3_Witness ==
    call.op = "rel" /\ call.type = "HAS_CASE" /\ call.resp.ok /\ Len(issued) = 2

\* C4 as stated: when a relationship chunk write failed, the run still ends
\* as success, exit code 0, never as a fatal abort.
C4_ChunkFailureRunStillSucceeds ==
    (pc = "done" /\ rel_failed) => (rc = 0 /\ exc = NoExc)

\* C4 as amended: a failed relationship chunk is skipped without retry and
\* without raising, every later chunk of its type is still written, the chunks
\* applied are among the chunks produced; the run then ends with exit code 0
\* unless resolving a later relationship type raises (missing configuration
\* key or source file), which aborts it with exit code 1.
C4_ChunkFailureSkippedOnly ==
    /\ (call.op = "rel" /\ ~call.resp.ok) =>
           /\ pc = "rels" /\ exc = NoExc /\ rel_failed
           /\ call.recs = issued[Len(issued)]
           /\ Len(applied) < Len(issued)
    /\ (pc = "rels" /\ cur # Idle) =>
           /\ Len(issued) * batch_size = cur.off
           /\ Concat(issued) = SubSeq(cur.records, 1, Min(cur.off, Len(cur.records)))
           /\ Range(applied) \subseteq Range(issued)
           /\ cur.off >= Len(cur.records) => Concat(issued) = cur.records
    /\ (pc = "done" /\ rel_failed) =>
           \/ rc = 0 /\ exc = NoExc /\ todo = <<>>
           \/ /\ rc = 1 /\ exc.phase = "relationships"
              /\ exc.kind \in {"KeyError", "FileNotFoundError"}

\* C4 witness: the first chunk of a type failed, the second was written and
\* applied, and the type's loop has ended.
C4_Witness ==
    /\ pc = "rels" /\ cur # Idle /\ cur.off >= Len(cur.records)
    /\ Len(issued) = 2 /\ applied = <<issued[2]>> /\ rel_failed

\* C5 as stated: a run ends as success, or as fatal abort caused by connect,
\* constraints, indexes or node loading; nothing in relationship loading
\* makes the run a fatal abort.
C5_AbortOnlyFromPhases1To4 ==
    pc = "done" =>
        \/ rc = 0 /\ exc = NoExc
        \/ rc = 1 /\ exc.phase \in {"connect", "constraints", "indexes", "nodes"}

\* C5 as amended: a run ends as success with every phase completed, or as
\* fatal abort caused by connect, constraints, indexes, node loading, or by
\* relationship loading failing to resolve a type's records (missing
\* configuration key, missing source file); a failed relationship chunk write
\* never makes the run a fatal abort.
C5_TerminalStates ==
    pc = "done" =>
        \/ /\ rc = 0 /\ exc = NoExc
           /\ constraints = 0 /\ IndexList(indexes) = 0
           /\ loaded = AllNodeTypes /\ todo = <<>> /\ cur = Idle
        \/ rc = 1 /\ exc.phase \in {"connect", "constraints", "indexes", "nodes"}
        \/ /\ rc = 1 /\ exc.phase = "relationships"
           /\ exc.kind \in {"KeyError", "FileNotFoundError"}

\* C5 witness: a run aborted by a missing relationship source file.
C5_Witness ==
    /\ pc = "done" /\ rc = 1
    /\ exc = [phase |-> "relationships", kind |-> "FileNotFoundError"]

C7_OneOwnerPerSlug ==
    (call.op = "node" /\ call.type = "CaseOwner") =>
        \A a, b \in 1..Len(call.recs) :
            a # b => call.recs[a].ownerId # call.recs[b].ownerId

\* C8: every write of the node and relationship phases, the CaseOwner write
\* included, binds at most batch_size records, and the chunks of a type are
\* consecutive and concatenate to the type's record sequence.
C8_EveryWriteIsOneChunk ==
    /\ Write(call) => Len(call.recs) <= batch_size
    /\ (cur # Idle /\ cur.off >= Len(cur.records)) => Concat(issued) = cur.records

\* C10: every ASSIGNED_TO record has a targetId that is the ownerId of a
\* CaseOwner record written earlier in the run.
C10_AssignedToTargetsLoaded ==
    /\ (call.op = "rel" /\ call.type = "ASSIGNED_TO") =>
           \A k \in 1..Len(call.recs) : call.recs[k].targetId \in db_owners
    /\ (pc = "rels" /\ cur.type = "ASSIGNED_TO") =>
           /\ "CaseOwner" \in loaded
           /\ \A k \in 1..Len(cur.records) : cur.records[k].targetId \in db_owners

\* C10 witness: an ASSIGNED_TO chunk is written whose owner name needed
\* trimming and lower-casing ("j s " in the file, "j_s" as identity).
C10_Witness ==
    /\ call.op = "rel" /\ call.type = "ASSIGNED_TO"
    /\ cases.rows[1].Case_Owner = <<"j"," ","s"," ">>
    /\ call.recs[1].targetId = <<"j","_","s">>

DateFieldOnly(f) == IsDateField(f) /\ ~IsNumericField(f)
NoDatePattern(v) == \A k \in 1..3 : ~Strptime(v, DateFormats[k]).ok

\* C9 as stated: for a date field, a non-empty text that matches no date
\* pattern is returned unchanged, and null is returned only for an empty or
\* absent input.
C9_UnparsedDateReturnedUnchanged ==
    (cv.st = "out" /\ DateFieldOnly(cv.field)) =>
        /\ (cv.value # None /\ cv.value # <<>> /\ NoDatePattern(cv.value)) =>
               cv.out = StrVal(cv.value)
        /\ cv.out = Null => (cv.value = None \/ cv.value = <<>>)

\* C9 as amended: for a date field, a text that is not empty and not only
\* whitespace and matches no date pattern is returned unchanged; null is
\* returned only for an empty, absent or whitespace-only input.
C9_UnparsedDateUnchangedUnlessBlank ==
    (cv.st = "out" /\ DateFieldOnly(cv.field)) =>
        /\ (cv.value # None /\ Strip(cv.value) # <<>> /\ NoDatePattern(cv.value)) =>
               cv.out = StrVal(cv.value)
        /\ cv.out = Null => (cv.value = None \/ Strip(cv.value) = <<>>)

\* C9 witness: "n/a" converted for the field ClosedAt comes back as "n/a".
C9_Witness ==
    /\ cv.st = "out" /\ cv.field = <<"C","l","o","s","e","d","A","t">>
    /\ cv.value = <<"n","/","a">> /\ cv.out = StrVal(<<"n","/","a">>)

====
